---- MODULE Spec2Model ----
(***************************************************************************)
(* sqlalchemy_utils.json_api: JSONMapping builds one PostgreSQL query that *)
(* returns a JSON:API document.  The model keeps the query as the tree of  *)
(* expressions the builder methods assemble, and executes that tree over a *)
(* small database of the models the test module declares.                  *)
(***************************************************************************)
EXTENDS Integers, Sequences, FiniteSets, TLC

VARIABLES
    db,      \* the tables: entity name -> sequence of rows (row i has id i)
    pc,      \* "idle" | "built" | "raised" | "executed" | "returned"
    call,    \* the call in progress: [op, entity, fields, include]
    ret,     \* what the call returned: the query (select) or the list (build_attributes)
    error,   \* the exception the call raised, "" when none
    rows     \* the result rows of session.execute(query), one document each

vars == <<db, pc, call, ret, error, rows>>

\* Rows the database holds at most, over all tables.
MaxRows == 2

----------------------------------------------------------------------------
(* Sequence helpers *)

Range(seq) == {seq[i] : i \in 1..Len(seq)}

Reverse(seq) == [i \in 1..Len(seq) |-> seq[Len(seq) + 1 - i]]

RECURSIVE Flatten(_)
Flatten(seqs) ==
    IF Len(seqs) = 0 THEN <<>> ELSE Head(seqs) \o Flatten(Tail(seqs))

\* seq without the later copies of an element (the first copy keeps its place)
RECURSIVE Distinct(_)
Distinct(seq) ==
    IF Len(seq) = 0 THEN <<>>
    ELSE LET front == Distinct(SubSeq(seq, 1, Len(seq) - 1))
             last  == seq[Len(seq)]
         IN IF \E i \in 1..Len(front) : front[i] = last
            THEN front ELSE Append(front, last)

----------------------------------------------------------------------------
(* The declared models: create_models of the test module *)

Column(key, pk, fk) == [key |-> key, primary_key |-> pk, foreign_key |-> fk]

\* sa.inspect(entity).columns.items(), in declaration order
Columns ==
    [User     |-> << Column("id", TRUE, FALSE), Column("name", FALSE, FALSE) >>,
     Category |-> << Column("id", TRUE, FALSE), Column("name", FALSE, FALSE),
                     Column("created_at", FALSE, FALSE),
                     Column("parent_id", FALSE, TRUE) >>,
     Article  |-> << Column("id", TRUE, FALSE), Column("name", FALSE, FALSE),
                     Column("content", FALSE, FALSE),
                     Column("category_id", FALSE, TRUE),
                     Column("author_id", FALSE, TRUE),
                     Column("owner_id", FALSE, TRUE) >>,
     Comment  |-> << Column("id", TRUE, FALSE), Column("content", FALSE, FALSE),
                     Column("article_id", FALSE, TRUE),
                     Column("author_id", FALSE, TRUE) >>]

Entities == DOMAIN Columns

\* A relationship property: parent.local = class_.remote is its primaryjoin;
\* class_ is relationship.mapper.class_, the target.
\* secondary is the association table of a many-to-many relationship, "" (None)
\* for every relationship declared here.
Relationship(key, parent, class_, uselist, local, remote) ==
    [key |-> key, parent |-> parent, class_ |-> class_, uselist |-> uselist,
     local |-> local, remote |-> remote, secondary |-> ""]

\* sa.inspect(entity).relationships, backrefs included
Relationships ==
    [User     |-> << Relationship("authored_articles", "User", "Article", TRUE, "id", "author_id"),
                     Relationship("owned_articles", "User", "Article", TRUE, "id", "owner_id"),
                     Relationship("comments", "User", "Comment", TRUE, "id", "author_id") >>,
     Category |-> << Relationship("parent", "Category", "Category", FALSE, "parent_id", "id"),
                     Relationship("subcategories", "Category", "Category", TRUE, "id", "parent_id"),
                     Relationship("articles", "Category", "Article", TRUE, "id", "category_id") >>,
     Article  |-> << Relationship("category", "Article", "Category", FALSE, "category_id", "id"),
                     Relationship("author", "Article", "User", FALSE, "author_id", "id"),
                     Relationship("owner", "Article", "User", FALSE, "owner_id", "id"),
                     Relationship("comments", "Article", "Comment", TRUE, "id", "article_id") >>,
     Comment  |-> << Relationship("article", "Comment", "Article", FALSE, "article_id", "id"),
                     Relationship("author", "Comment", "User", FALSE, "author_id", "id") >>]

RelationshipKeys(entity) == {r.key : r \in Range(Relationships[entity])}

RelationshipOf(entity, key) ==
    CHOOSE r \in Range(Relationships[entity]) : r.key = key

\* JSONMapping({'articles': Article, 'categories': Category, 'comments': Comment})
mapping == [articles |-> "Article", categories |-> "Category", comments |-> "Comment"]

\* self.inversed: the entities that have an alias; inversed[entity] raises
\* KeyError for the others
HasAlias(entity) == \E a \in DOMAIN mapping : mapping[a] = entity

inversed(entity) == CHOOSE a \in DOMAIN mapping : mapping[a] = entity

----------------------------------------------------------------------------
(* Python values *)

None == [isNone |-> TRUE, v |-> <<>>]

Some(v) == [isNone |-> FALSE, v |-> v]

\* bool(x) of an optional dict or list: None and the empty container are falsy
Truthy(opt) == ~opt.isNone /\ DOMAIN opt.v # {}

\* a result: the value returned, or the exception raised
Ok(v) == [err |-> "", val |-> v]

Raise(e) == [err |-> e, val |-> <<>>]

----------------------------------------------------------------------------
(* SQL expressions, as the builders assemble them *)

\* an entity's table in a FROM list: n = 0 is the table itself, n > 0 the
\* n-th anonymous alias of it (sa.orm.aliased, join(..., aliased=True))
Table(entity) == [table |-> entity, n |-> 0]

Aliased(entity, n) == [table |-> entity, n |-> n]

ColumnOf(occ, col) == [k |-> "column", occ |-> occ, col |-> col]

s(value) == [k |-> "text", v |-> value]

\* sa.func.json_build_object(*args): args is the flat list key, value, key, ...
json_build_object(args) == [k |-> "json_build_object", args |-> args]

array_agg(e) == [k |-> "array_agg", e |-> e]

cast_jsonb(e) == [k |-> "cast", e |-> e, type |-> "JSONB"]

as_scalar(q) == [k |-> "scalar", q |-> q]

correlate(q, entity) == [q EXCEPT !.correlate = {entity}]

has_foreign_key(column) == column.foreign_key

----------------------------------------------------------------------------
(* select_aggregate *)

\* r, when it raised; what F makes of its value otherwise
Then(r, F(_)) == IF r.err # "" THEN r ELSE F(r.val)

\* query.join(getattr(left, attr.key)): left.local = right.remote
Join(left, attr, right, aliased) ==
    [left |-> left, right |-> right, key |-> attr.key, aliased |-> aliased,
     onleft |-> attr.local, onright |-> attr.remote]

\* The for loop over relationships[0:-2], from position i on.  getattr(alias,
\* key) raises AttributeError when the class of alias has no such attribute;
\* the attribute found is that class's own relationship of this name.
RECURSIVE join_loop(_, _, _, _)
join_loop(relationships, i, alias, joins) ==
    IF i > Len(relationships) - 2
    THEN Ok([alias |-> alias, joins |-> joins])
    ELSE IF relationships[i].key \notin RelationshipKeys(alias.table)
    THEN Raise("AttributeError")
    ELSE join_loop(relationships, i + 1, Table(relationships[i].class_),
                   Append(joins,
                          Join(alias,
                               RelationshipOf(alias.table, relationships[i].key),
                               Aliased(RelationshipOf(alias.table,
                                                      relationships[i].key).class_,
                                       i + 1),
                               TRUE)))

\* query.filter(last.primaryjoin), after the join through last.secondary if any
Filtered(agg_expr, select_from, joins, last) ==
    [k |-> "select", columns |-> agg_expr, select_from |-> select_from,
     joins |-> joins,
     secondary |-> last.secondary,
     where |-> [left  |-> ColumnOf(Table(last.parent), last.local),
                right |-> ColumnOf(Table(last.class_), last.remote)],
     correlate |-> {}]

\* query.join(getattr(alias, key)) of line 58: Query.join refuses to join an
\* entity to itself without an alias
last_join(alias, joins, key) ==
    IF key \notin RelationshipKeys(alias.table)
    THEN Raise("AttributeError")
    ELSE IF alias = Table(RelationshipOf(alias.table, key).class_)
    THEN Raise("InvalidRequestError")
    ELSE Ok(Append(joins,
                   Join(alias, RelationshipOf(alias.table, key),
                        Table(RelationshipOf(alias.table, key).class_), FALSE)))

select_aggregate(agg_expr, relationships) ==
    IF Len(relationships) > 1
    THEN Then(join_loop(relationships, 1, Aliased(relationships[1].class_, 1), <<>>),
              LAMBDA loop :
         Then(last_join(loop.alias, loop.joins,
                        relationships[Len(relationships) - 1].key),
              LAMBDA joins :
         Ok(Filtered(agg_expr, Aliased(relationships[1].class_, 1), joins,
                     relationships[Len(relationships)]))))
    ELSE Ok(Filtered(agg_expr, Table(relationships[1].class_), <<>>,
                     relationships[Len(relationships)]))

----------------------------------------------------------------------------
(* JSONMapping *)

\* skip_field without its primary-key test
skip_field_keeps_primary_key(entity_name, fields, column) ==
    \/ has_foreign_key(column)
    \/ /\ Truthy(fields)
       /\ entity_name \in DOMAIN fields.v
       /\ column.key \notin Range(fields.v[entity_name])

skip_field(entity_name, fields, column) ==
    \/ column.primary_key
    \/ has_foreign_key(column)
    \/ /\ Truthy(fields)
       /\ entity_name \in DOMAIN fields.v
       /\ column.key \notin Range(fields.v[entity_name])

build_attributes(entity, fields) ==
    IF ~HasAlias(entity) THEN Raise("KeyError")
    ELSE Ok(Flatten([i \in 1..Len(Columns[entity]) |->
               IF skip_field(inversed(entity), fields, Columns[entity][i])
               THEN <<>>
               ELSE << s(Columns[entity][i].key),
                       ColumnOf(Table(entity), Columns[entity][i].key) >>]))

build_id_and_type(model) ==
    IF ~HasAlias(model) THEN Raise("KeyError")
    ELSE Ok(<< s("id"), ColumnOf(Table(model), "id"),
               s("type"), s(inversed(model)) >>)

\* func of build_relationships: the related object, aggregated when uselist
relationship_func(relationship, relationship_attrs) ==
    IF relationship.uselist
    THEN array_agg(json_build_object(relationship_attrs))
    ELSE json_build_object(relationship_attrs)

\* the for loop of build_relationships, from position i on
RECURSIVE build_relationships_loop(_, _, _)
build_relationships_loop(entity, relationships, i) ==
    IF i > Len(relationships) THEN Ok(<<>>)
    ELSE Then(build_id_and_type(relationships[i].class_),
              LAMBDA relationship_attrs :
         Then(select_aggregate(
                  relationship_func(relationships[i], relationship_attrs),
                  <<relationships[i]>>),
              LAMBDA query :
         Then(build_relationships_loop(entity, relationships, i + 1),
              LAMBDA rest :
         Ok(<< s(relationships[i].key),
               json_build_object(<< s("data"),
                                    as_scalar(correlate(query, entity)) >>) >>
            \o rest))))

\* the relationships fields[model_alias] names, in its order
selected_relationships(entity, names) ==
    Flatten([i \in 1..Len(names) |->
                IF names[i] \in RelationshipKeys(entity)
                THEN << RelationshipOf(entity, names[i]) >>
                ELSE <<>>])

build_relationships(entity, fields) ==
    IF ~HasAlias(entity) THEN Raise("KeyError")
    ELSE IF fields.isNone THEN Raise("TypeError")
    ELSE IF inversed(entity) \notin DOMAIN fields.v THEN Raise("KeyError")
    ELSE build_relationships_loop(
             entity, selected_relationships(entity, fields.v[inversed(entity)]), 1)

\* <<s(name), json_build_object(args)>> when args is not empty
block_if_any(name, args) ==
    IF Len(args) > 0 THEN << s(name), json_build_object(args) >> ELSE <<>>

build_attrs_and_relationships(entity, fields) ==
    Then(build_attributes(entity, fields), LAMBDA attrs :
    Then(build_relationships(entity, fields), LAMBDA json_relationships :
    Ok(block_if_any("attributes", attrs)
       \o block_if_any("relationships", json_relationships))))

\* select array_agg(<name>.json_object) from (<element>) as <name>
select_array_agg(name, element) ==
    [k |-> "select_array_agg", name |-> name, element |-> element, correlate |-> {}]

\* sa.select([columns.label('json_object')]): its FROM is the table the columns name
select_json_object(columns) == [k |-> "select_json_object", columns |-> columns]

build_data(entity, fields, include) ==
    IF ~HasAlias(entity) THEN Raise("KeyError")
    ELSE Then(build_id_and_type(entity), LAMBDA id_and_type :
         Then(IF Truthy(fields) /\ inversed(entity) \in DOMAIN fields.v
              THEN build_attrs_and_relationships(entity, fields)
              ELSE Ok(<<>>),
              LAMBDA more :
         Ok(<< s("data"),
               as_scalar(correlate(
                   select_array_agg("main_json",
                       select_json_object(json_build_object(id_and_type \o more))),
                   entity)) >>)))

\* relationships.path_to_relationships(path, entity): the relationship of each
\* segment of the dotted path, looked up on the class the previous one reaches.
\* A path is kept as the sequence of its segments.
RECURSIVE path_to_relationships(_, _)
path_to_relationships(path, entity) ==
    IF Len(path) = 0 THEN Ok(<<>>)
    ELSE IF Head(path) \notin RelationshipKeys(entity)
    THEN Raise("UnknownRelationshipError")
    ELSE Then(path_to_relationships(Tail(path),
                                    RelationshipOf(entity, Head(path)).class_),
              LAMBDA rest : Ok(<<RelationshipOf(entity, Head(path))>> \o rest))

\* included_attributes without the `cls_alias in fields` test
included_attributes_always(cls, fields) ==
    Then(build_attributes(cls, fields),
         LAMBDA attrs : Ok(<< s("attributes"), json_build_object(attrs) >>))

\* the attributes block build_included gives cls when its alias is in fields
included_attributes(cls, fields) ==
    IF inversed(cls) \in DOMAIN fields.v
    THEN Then(build_attributes(cls, fields),
              LAMBDA attrs : Ok(<< s("attributes"), json_build_object(attrs) >>))
    ELSE Ok(<<>>)

\* the body of the inner for loop of build_included: the select of one
\* (path, index) pair; index counts from 1 here
included_select(entity, fields, relationships, index) ==
    IF ~HasAlias(relationships[index].class_) THEN Raise("KeyError")
    ELSE Then(build_id_and_type(relationships[index].class_), LAMBDA id_and_type :
         \* `cls_alias in fields` with fields None
         IF fields.isNone THEN Raise("TypeError")
         ELSE Then(included_attributes(relationships[index].class_, fields),
                   LAMBDA attributes :
              Then(select_aggregate(
                       cast_jsonb(json_build_object(id_and_type \o attributes)),
                       Reverse(SubSeq(relationships, 1, index))),
                   LAMBDA query : Ok(correlate(query, entity)))))

\* the inner for loop taking the whole path only, not each of its prefixes
included_path_loop_terminal(entity, fields, relationships, index) ==
    IF index > Len(relationships) THEN Ok(<<>>)
    ELSE Then(included_select(entity, fields, relationships, Len(relationships)),
              LAMBDA one : Ok(<<one>>))

\* the inner for loop, from position index on
RECURSIVE included_path_loop(_, _, _, _)
included_path_loop(entity, fields, relationships, index) ==
    IF index > Len(relationships) THEN Ok(<<>>)
    ELSE Then(included_select(entity, fields, relationships, index), LAMBDA one :
         Then(included_path_loop(entity, fields, relationships, index + 1),
              LAMBDA rest : Ok(<<one>> \o rest)))

\* the outer for loop, from the i-th path on: the list selects
RECURSIVE included_selects(_, _, _, _)
included_selects(entity, fields, include, i) ==
    IF i > Len(include) THEN Ok(<<>>)
    ELSE Then(path_to_relationships(include[i], entity), LAMBDA relationships :
         Then(included_path_loop(entity, fields, relationships, 1), LAMBDA these :
         Then(included_selects(entity, fields, include, i + 1), LAMBDA rest :
         Ok(these \o rest))))

\* reduce(lambda a, b: a.union(b), selects): a single select stays as it is
union(selects) ==
    IF Len(selects) = 1 THEN selects[1]
    ELSE [k |-> "union", selects |-> selects]

build_included(entity, fields, include) ==
    IF Truthy(include)
    THEN Then(included_selects(entity, fields, include.v, 1), LAMBDA selects :
         \* reduce() of an empty sequence with no initial value
         IF Len(selects) = 0 THEN Raise("TypeError")
         ELSE Ok(<< s("included"),
                    as_scalar(select_array_agg("included", union(selects))) >>))
    ELSE Ok(<<>>)

\* select that builds the included block and never adds it to args
select_without_included(entity, fields, include) ==
    Then(build_data(entity, fields, include), LAMBDA args :
    Then(build_included(entity, fields, include), LAMBDA included :
    Ok([k |-> "select",
        columns  |-> json_build_object(args),
        from_obj |-> entity])))

select(entity, fields, include) ==
    Then(build_data(entity, fields, include), LAMBDA args :
    Then(build_included(entity, fields, include), LAMBDA included :
    Ok([k |-> "select",
        columns  |-> json_build_object(args \o included),
        from_obj |-> entity])))

----------------------------------------------------------------------------
(* Execution: what PostgreSQL returns for the query over db.  A column     *)
(* holds a number, 0 standing for NULL.  The order of the rows of a select *)
(* without ORDER BY is the scan order of its tables.                       *)

JNull == [j |-> "null"]

JNumber(n) == [j |-> "number", v |-> n]

JString(x) == [j |-> "string", v |-> x]

JArray(items) == [j |-> "array", v |-> items]

JObject(members) == [j |-> "object", v |-> members]

JError(what) == [j |-> "error", v |-> what]

\* the tables an expression names outside its scalar sub-queries: they are
\* what SQLAlchemy adds to the FROM list of the select that holds it
RECURSIVE DirectTables(_)
DirectTables(e) ==
    CASE e.k = "column" -> <<e.occ>>
      [] e.k = "json_build_object" ->
            Flatten([i \in 1..Len(e.args) |-> DirectTables(e.args[i])])
      [] e.k = "array_agg" -> DirectTables(e.e)
      [] e.k = "cast" -> DirectTables(e.e)
      [] OTHER -> <<>>

\* the tables of `all` that stay in the FROM list: a correlated table the
\* enclosing query offers is left to it
Uncorrelated(all, q, env) ==
    Flatten([i \in 1..Len(all) |->
        IF all[i].n = 0 /\ all[i].table \in q.correlate /\ all[i] \in DOMAIN env
        THEN <<>> ELSE <<all[i]>>])

\* the FROM list of a select_aggregate query: select_from, the two sides of
\* each join, every other table its columns and its filter name
FromList(q, env) ==
    Uncorrelated(
        Distinct(<<q.select_from>>
                 \o Flatten([i \in 1..Len(q.joins) |->
                                <<q.joins[i].left, q.joins[i].right>>])
                 \o DirectTables(q.columns)
                 \o <<q.where.left.occ, q.where.right.occ>>),
        q, env)

Bind(env, occ, i) ==
    [o \in DOMAIN env \cup {occ} |-> IF o = occ THEN i ELSE env[o]]

\* every way to give each table of the FROM list one of its rows
RECURSIVE Bindings(_, _)
Bindings(occs, env) ==
    IF Len(occs) = 0 THEN <<env>>
    ELSE Flatten([i \in 1..Len(db[Head(occs).table]) |->
                     Bindings(Tail(occs), Bind(env, Head(occs), i))])

Value(occ, col, env) == db[occ.table][env[occ]][col]

\* a = b in SQL: not true when either side is NULL
SqlEquals(a, b) == a # 0 /\ b # 0 /\ a = b

Qualifies(q, env) ==
    /\ \A i \in 1..Len(q.joins) :
          SqlEquals(Value(q.joins[i].left, q.joins[i].onleft, env),
                    Value(q.joins[i].right, q.joins[i].onright, env))
    /\ SqlEquals(Value(q.where.left.occ, q.where.left.col, env),
                 Value(q.where.right.occ, q.where.right.col, env))

\* the key of the j-th pair of json_build_object's arguments, and the place
\* of the value the decoded object keeps for a key (the last one given)
KeyAt(args, j) == args[2 * j - 1].v

LastOf(args, key) ==
    CHOOSE j \in 1..(Len(args) \div 2) :
        /\ KeyAt(args, j) = key
        /\ \A h \in (j + 1)..(Len(args) \div 2) : KeyAt(args, h) # key

\* a column's value as JSON
JColumn(v) == IF v = 0 THEN JNull ELSE JNumber(v)

\* array_agg over no rows is NULL
Aggregated(items) == IF Len(items) = 0 THEN JNull ELSE JArray(items)

\* a scalar sub-query: NULL for no row, an error for more than one
ScalarOf(items) ==
    IF Len(items) = 0 THEN JNull
    ELSE IF Len(items) = 1 THEN items[1]
    ELSE JError("more than one row returned by a subquery")

\* what a select_aggregate query selects for each row: array_agg takes them all
ItemOf(columns) == IF columns.k = "array_agg" THEN columns.e ELSE columns

RECURSIVE Eval(_, _)
RECURSIVE EvalEach(_, _, _)
RECURSIVE SelectRows(_, _)
RECURSIVE ElementRows(_, _)

\* the value of an expression for the rows env binds
Eval(e, env) ==
    CASE e.k = "column" -> JColumn(Value(e.occ, e.col, env))
      [] e.k = "text" -> JString(e.v)
      [] e.k = "cast" -> Eval(e.e, env)
      [] e.k = "json_build_object" ->
            JObject([key \in {KeyAt(e.args, j) : j \in 1..(Len(e.args) \div 2)} |->
                        Eval(e.args[2 * LastOf(e.args, key)], env)])
      [] e.k = "scalar" ->
            IF e.q.k = "select_array_agg"
            THEN Aggregated(ElementRows(e.q.element, env))
            ELSE IF e.q.columns.k = "array_agg"
            THEN Aggregated(SelectRows(e.q, env))
            ELSE ScalarOf(SelectRows(e.q, env))

\* item for each of the bindings that qualifies (all of them when q is <<>>)
EvalEach(item, q, bindings) ==
    Flatten([i \in 1..Len(bindings) |->
        IF q = <<>> \/ Qualifies(q, bindings[i])
        THEN <<Eval(item, bindings[i])>> ELSE <<>>])

\* the rows of a select_aggregate query, before any aggregation
SelectRows(q, env) ==
    EvalEach(ItemOf(q.columns), q, Bindings(FromList(q, env), env))

\* the rows of the derived table a select_array_agg reads.  A derived table
\* in FROM is not auto-correlated: select_json_object scans its own table.
\* UNION keeps one copy of equal rows.
ElementRows(element, env) ==
    CASE element.k = "select_json_object" ->
            EvalEach(element.columns, <<>>,
                     Bindings(Distinct(DirectTables(element.columns)), <<>>))
      [] element.k = "union" ->
            Distinct(Flatten([i \in 1..Len(element.selects) |->
                                 SelectRows(element.selects[i], env)]))
      [] OTHER -> SelectRows(element, env)

\* session.execute(query): one row for each row of query.from_obj
execute(query) ==
    [i \in 1..Len(db[query.from_obj]) |->
        Eval(query.columns, Bind(<<>>, Table(query.from_obj), i))]

----------------------------------------------------------------------------
(* The calls made *)

\* root entities select is called with; User has no alias in the mapping
Roots == {"Article", "Comment", "User"}

\* the field lists a `fields` dict gives an alias: columns, primary and
\* foreign keys, to-one and to-many relationships, a relationship to a class
\* without alias, an unknown name; "bogus" is no alias of the mapping
FieldLists ==
    [articles   |-> { <<>>, <<"name">>, <<"name", "content">>,
                      <<"id", "category_id", "name">>, <<"category">>,
                      <<"comments">>, <<"name", "category", "comments">>,
                      <<"author">>, <<"x">> },
     categories |-> { <<"name">>, <<"id", "parent_id">>, <<"subcategories">>,
                      <<"name", "subcategories">> },
     comments   |-> { <<"content">>, <<"article">> },
     bogus      |-> { <<"x">> }]

Dict1(a, x) == [key \in {a} |-> x]

Dict2(a, x, b, y) == [key \in {a, b} |-> IF key = a THEN x ELSE y]

\* fields: None, {}, or a dict of one or two aliases
FieldsInputs ==
    {None, Some(<<>>)}
    \cup UNION {{Some(Dict1(a, x)) : x \in FieldLists[a]} : a \in DOMAIN FieldLists}
    \cup UNION {UNION {{Some(Dict2(a, x, b, y)) : x \in FieldLists[a], y \in FieldLists[b]}
                       : b \in DOMAIN FieldLists \ {a}} : a \in DOMAIN FieldLists}

\* include: None, [], or a list of dotted paths, each kept as its segments
IncludeInputs ==
    [Article |-> { None, Some(<<>>),
                   Some(<< <<"category">> >>),
                   Some(<< <<"comments">> >>),
                   Some(<< <<"category">>, <<"comments">> >>),
                   Some(<< <<"category">>, <<"category">> >>),
                   Some(<< <<"category", "subcategories">> >>),
                   Some(<< <<"category", "parent">>, <<"comments">> >>),
                   Some(<< <<"category", "subcategories", "subcategories">> >>),
                   Some(<< <<"category", "articles">> >>),
                   Some(<< <<"author">> >>),
                   Some(<< <<"nosuch">> >>) },
     Comment |-> { None, Some(<<>>),
                   Some(<< <<"article">> >>),
                   Some(<< <<"article", "category">> >>),
                   Some(<< <<"author">> >>) },
     User    |-> { None, Some(<<>>), Some(<< <<"comments">> >>) }]

----------------------------------------------------------------------------
(* The state machine *)

NoCall == [op |-> "", entity |-> "", fields |-> None, include |-> None]

Init ==
    /\ db = [Article |-> <<>>, Category |-> <<>>, Comment |-> <<>>, User |-> <<>>]
    /\ pc = "idle"
    /\ call = NoCall
    /\ ret = <<>>
    /\ error = ""
    /\ rows = <<>>

TotalRows == Len(db.Article) + Len(db.Category) + Len(db.Comment) + Len(db.User)

\* session.add(Category(parent=...)); session.commit()
AddCategory(parent_id) ==
    /\ pc = "idle"
    /\ TotalRows < MaxRows
    /\ db' = [db EXCEPT !.Category =
                 Append(@, [id |-> Len(@) + 1, name |-> Len(@) + 1,
                            created_at |-> 0, parent_id |-> parent_id])]
    /\ UNCHANGED <<pc, call, ret, error, rows>>

\* session.add(Article(category=...)); session.commit()
AddArticle(category_id) ==
    /\ pc = "idle"
    /\ TotalRows < MaxRows
    /\ db' = [db EXCEPT !.Article =
                 Append(@, [id |-> Len(@) + 1, name |-> Len(@) + 1, content |-> 0,
                            category_id |-> category_id,
                            author_id |-> 0, owner_id |-> 0])]
    /\ UNCHANGED <<pc, call, ret, error, rows>>

\* session.add(Comment(article=...)); session.commit()
AddComment(article_id) ==
    /\ pc = "idle"
    /\ TotalRows < MaxRows
    /\ db' = [db EXCEPT !.Comment =
                 Append(@, [id |-> Len(@) + 1, content |-> Len(@) + 1,
                            article_id |-> article_id, author_id |-> 0])]
    /\ UNCHANGED <<pc, call, ret, error, rows>>

\* json.select(session, entity, fields=fields, include=include)
Select(entity, fields, include) ==
    /\ pc = "idle"
    /\ call' = [op |-> "select", entity |-> entity,
                fields |-> fields, include |-> include]
    /\ LET r == select(entity, fields, include)
       IN /\ pc' = IF r.err = "" THEN "built" ELSE "raised"
          /\ ret' = r.val
          /\ error' = r.err
    /\ UNCHANGED <<db, rows>>

\* session.execute(query)
Execute ==
    /\ pc = "built"
    /\ rows' = execute(ret)
    /\ pc' = "executed"
    /\ UNCHANGED <<db, call, ret, error>>

\* json.build_attributes(entity, fields=fields)
BuildAttributes(entity, fields) ==
    /\ pc = "idle"
    /\ call' = [op |-> "build_attributes", entity |-> entity,
                fields |-> fields, include |-> None]
    /\ LET r == build_attributes(entity, fields)
       IN /\ pc' = IF r.err = "" THEN "returned" ELSE "raised"
          /\ ret' = r.val
          /\ error' = r.err
    /\ UNCHANGED <<db, rows>>

Next ==
    \/ \E parent_id \in 0..Len(db.Category) : AddCategory(parent_id)
    \/ \E category_id \in 0..Len(db.Category) : AddArticle(category_id)
    \/ \E article_id \in 0..Len(db.Article) : AddComment(article_id)
    \/ \E entity \in Roots, fields \in FieldsInputs :
          \E include \in IncludeInputs[entity] : Select(entity, fields, include)
    \/ Execute
    \/ \E entity \in Entities, fields \in FieldsInputs : BuildAttributes(entity, fields)

Spec == Init /\ [][Next]_vars

----------------------------------------------------------------------------
(* What the properties read *)

Selecting == call.op = "select"

HasQuery == Selecting /\ pc \in {"built", "executed"}

\* the keys of a flat key, value, ... list
KeysOf(args) == {KeyAt(args, j) : j \in 1..(Len(args) \div 2)}

\* the columns of an entity that are neither primary key nor foreign key
PlainColumns(entity) ==
    {c.key : c \in {x \in Range(Columns[entity]) : ~x.primary_key /\ ~x.foreign_key}}

\* the resource objects under `data` and under `included` of result row i
DataOf(i) == rows[i].v.data.v

IncludedOf(i) ==
    IF "included" \in DOMAIN rows[i].v /\ rows[i].v.included.j = "array"
    THEN rows[i].v.included.v
    ELSE <<>>

ObjectsOf(i) == DataOf(i) \o IncludedOf(i)

AliasOf(object) == object.v.type.v

\* the names `fields` gives an alias, none when it is not a key of it
FieldsOf(alias) ==
    IF ~call.fields.isNone /\ alias \in DOMAIN call.fields.v
    THEN Range(call.fields.v[alias])
    ELSE {}

----------------------------------------------------------------------------
(* C1 *)

\* C1: build_attributes(T, fields), for T with alias A, emits exactly the
\* plain (not primary-key, not foreign-key) columns of T when fields is absent
\* or A is no key of it, and exactly F \cap plain columns when fields[A] = F;
\* each key once, with T's own column as its value.
C1_AttributeKeys ==
    (call.op = "build_attributes" /\ pc = "returned") =>
        LET T == call.entity
            A == inversed(T)
            expected == IF call.fields.isNone \/ A \notin DOMAIN call.fields.v
                        THEN PlainColumns(T)
                        ELSE Range(call.fields.v[A]) \cap PlainColumns(T)
        IN /\ KeysOf(ret) = expected
           /\ Len(ret) = 2 * Cardinality(expected)
           /\ \A j \in 1..(Len(ret) \div 2) :
                 ret[2 * j] = ColumnOf(Table(T), KeyAt(ret, j))

\* build_attributes returned for an alias whose field list names a primary
\* key, a foreign key and a plain column: only the plain column is emitted
C1_Witness ==
    /\ call.op = "build_attributes" /\ pc = "returned"
    /\ ~call.fields.isNone
    /\ inversed(call.entity) \in DOMAIN call.fields.v
    /\ {"id", "category_id", "name"} \subseteq FieldsOf(inversed(call.entity))
    /\ KeysOf(ret) = {"name"}

----------------------------------------------------------------------------
(* C2 *)

\* C2: when fields is a mapping and alias A is not one of its keys, every
\* resource object of type A in the document, under data or under included,
\* has the keys id and type and no other.
C2_Omission ==
    (Selecting /\ pc = "executed" /\ ~call.fields.isNone) =>
        \A i \in 1..Len(rows) : \A n \in 1..Len(ObjectsOf(i)) :
            AliasOf(ObjectsOf(i)[n]) \notin DOMAIN call.fields.v
                => DOMAIN ObjectsOf(i)[n].v = {"id", "type"}

\* a document whose fields names some alias, with a root object and an
\* included object of aliases it does not name
C2_Witness ==
    /\ Selecting /\ pc = "executed" /\ Truthy(call.fields)
    /\ \E i \in 1..Len(rows) :
          /\ AliasOf(DataOf(i)[1]) \notin DOMAIN call.fields.v
          /\ \E n \in 1..Len(IncludedOf(i)) :
                AliasOf(IncludedOf(i)[n]) \notin DOMAIN call.fields.v

----------------------------------------------------------------------------
(* C3 *)

\* C3: a resource object has the key attributes if and only if its alias is
\* a key of fields and at least one field selected for it is a plain column.
C3_AttributesIff ==
    (Selecting /\ pc = "executed") =>
        \A i \in 1..Len(rows) : \A n \in 1..Len(ObjectsOf(i)) :
            ("attributes" \in DOMAIN ObjectsOf(i)[n].v)
                <=> (FieldsOf(AliasOf(ObjectsOf(i)[n]))
                        \cap PlainColumns(mapping[AliasOf(ObjectsOf(i)[n])]) # {})

----------------------------------------------------------------------------
(* C4 *)

\* C4: under relationships.r.data of a root object there is a list when r
\* is to-many, and an object or null when r is to-one.
C4_Cardinality ==
    (Selecting /\ pc = "executed") =>
        \A i \in 1..Len(rows) : \A n \in 1..Len(DataOf(i)) :
            "relationships" \in DOMAIN DataOf(i)[n].v =>
                \A r \in DOMAIN DataOf(i)[n].v.relationships.v :
                    LET data == DataOf(i)[n].v.relationships.v[r].v.data
                    IN IF RelationshipOf(call.entity, r).uselist
                       THEN data.j = "array"
                       ELSE data.j \in {"object", "null"}

----------------------------------------------------------------------------
(* C5 *)

\* C5: with N >= 1 rows of the root type, executing the query gives one
\* result row, whose data lists one resource object for each root row.
C5_OneDocument ==
    (Selecting /\ pc = "executed" /\ Len(db[call.entity]) >= 1) =>
        /\ Len(rows) = 1
        /\ Len(DataOf(1)) = Len(db[call.entity])
        /\ \A id \in 1..Len(db[call.entity]) :
              \E n \in 1..Len(DataOf(1)) : DataOf(1)[n].v.id = JNumber(id)

----------------------------------------------------------------------------
(* C6 *)

\* C6: an included resource object whose alias has relationship names
\* selected in fields carries a relationships block.
C6_IncludedRelationships ==
    (Selecting /\ pc = "executed") =>
        \A i \in 1..Len(rows) : \A n \in 1..Len(IncludedOf(i)) :
            (FieldsOf(AliasOf(IncludedOf(i)[n]))
                \cap RelationshipKeys(mapping[AliasOf(IncludedOf(i)[n])]) # {})
            => "relationships" \in DOMAIN IncludedOf(i)[n].v

----------------------------------------------------------------------------
(* C7 *)

\* C7: the query select returns, and every document it yields, has the key
\* included if and only if include is a non-empty list; otherwise data is
\* the only key and the only argument pair built.
C7_IncludedIff ==
    HasQuery =>
        /\ ("included" \in KeysOf(ret.columns.args)) <=> Truthy(call.include)
        /\ ~Truthy(call.include) =>
              /\ KeysOf(ret.columns.args) = {"data"}
              /\ Len(ret.columns.args) = 2
        /\ \A i \in 1..Len(rows) : DOMAIN rows[i].v = KeysOf(ret.columns.args)

\* a document with included, from a call with a non-empty include
C7_Witness ==
    /\ Selecting /\ pc = "executed" /\ Truthy(call.include)
    /\ \E i \in 1..Len(rows) : DOMAIN rows[i].v = {"data", "included"}

----------------------------------------------------------------------------
(* C8 *)

\* C8: select raises when fields has a key that is no alias of the mapping.
C8_UnknownAliasRaises ==
    (Selecting /\ ~call.fields.isNone
        /\ \E key \in DOMAIN call.fields.v : key \notin DOMAIN mapping)
    => pc = "raised"

----------------------------------------------------------------------------
(* C9 *)

\* every segment of the path names a relationship, and every class the path
\* reaches has an alias
RECURSIVE ValidPath(_, _)
ValidPath(path, entity) ==
    \/ Len(path) = 0
    \/ /\ Head(path) \in RelationshipKeys(entity)
       /\ HasAlias(RelationshipOf(entity, Head(path)).class_)
       /\ ValidPath(Tail(path), RelationshipOf(entity, Head(path)).class_)

\* C9: select with fields None and a non-empty include of valid paths does
\* not raise, and every object of its document has id and type only.
C9_FieldsOptional ==
    (Selecting /\ call.fields.isNone /\ HasAlias(call.entity)
        /\ Truthy(call.include)
        /\ \A p \in 1..Len(call.include.v) : ValidPath(call.include.v[p], call.entity))
    => /\ pc # "raised"
       /\ \A i \in 1..Len(rows) : \A n \in 1..Len(ObjectsOf(i)) :
             DOMAIN ObjectsOf(i)[n].v = {"id", "type"}

----------------------------------------------------------------------------
(* C10 *)

\* the selects build_included unions, in the order it appended them
SelectsOf(query) ==
    LET element == query.columns.args[4].q.element
    IN IF element.k = "union" THEN element.selects ELSE <<element>>

\* the relationship chain of the p-th include path
ChainOf(p) == path_to_relationships(call.include.v[p], call.entity).val

\* the selects that come before those of the p-th path
RECURSIVE Before(_)
Before(p) == IF p = 1 THEN 0 ELSE Before(p - 1) + Len(ChainOf(p - 1))

\* C10: for a non-empty include the union has one select for each path p and
\* each k in 1..Len(chain(p)), in that order: it selects the id and type of
\* the class hop k reaches, is the plan select_aggregate makes for the first k
\* relationships of p reversed, and is correlated to the root entity.  The
\* selects number the sum of the chain lengths.
C10_OneSelectPerPrefix ==
    (HasQuery /\ Truthy(call.include)) =>
        /\ Len(SelectsOf(ret)) = Before(Len(call.include.v) + 1)
        /\ \A p \in 1..Len(call.include.v) : \A k \in 1..Len(ChainOf(p)) :
              LET one == SelectsOf(ret)[Before(p) + k]
                  cls == ChainOf(p)[k].class_
              IN /\ SubSeq(one.columns.e.args, 1, 4) =
                       << s("id"), ColumnOf(Table(cls), "id"),
                          s("type"), s(inversed(cls)) >>
                 /\ one.correlate = {call.entity}
                 /\ one = correlate(
                            select_aggregate(one.columns,
                                             Reverse(SubSeq(ChainOf(p), 1, k))).val,
                            call.entity)
                 /\ one.where.left = ColumnOf(Table(call.entity), ChainOf(p)[1].local)

\* a query built for two include paths, one of them two hops long: three selects
C10_Witness ==
    /\ HasQuery /\ Truthy(call.include)
    /\ Len(call.include.v) = 2
    /\ \E p \in 1..Len(call.include.v) : Len(ChainOf(p)) = 2
    /\ Len(SelectsOf(ret)) = 3

----------------------------------------------------------------------------
(* C11 *)

\* the rows the first k selects of the union yield for root row i, counted
\* select by select
RECURSIVE RowsOfSelects(_, _)
RowsOfSelects(i, k) ==
    IF k = 0 THEN 0
    ELSE RowsOfSelects(i, k - 1)
         + Len(SelectRows(SelectsOf(ret)[k], Bind(<<>>, Table(call.entity), i)))

\* C11: included is not deduplicated: it holds every row of every (path,
\* prefix) select, so two selects yielding equal resource objects give two
\* copies, and its length is the sum of the rows of the selects.
C11_NotDeduplicated ==
    (Selecting /\ pc = "executed" /\ Truthy(call.include)) =>
        \A i \in 1..Len(rows) :
            Len(IncludedOf(i)) = RowsOfSelects(i, Len(SelectsOf(ret)))

----------------------------------------------------------------------------
(* C12 *)

\* the table occurrences of the FROM/JOIN list of a select_aggregate query
OccurrencesOf(query) ==
    <<query.select_from>> \o [j \in 1..Len(query.joins) |-> query.joins[j].right]

\* C12: for every chain select_aggregate is given (here the reversed prefixes
\* of valid include paths) it plans a query and does not raise; no two table
\* occurrences of its FROM/JOIN list share a name, also when an entity recurs
\* in the chain; the hops before the last are joined once each, in chain
\* order, and the last hop gives the filter only.
C12_FreshAliasPerHop ==
    (Selecting /\ ~call.fields.isNone /\ HasAlias(call.entity)
        /\ Truthy(call.include)
        /\ \A p \in 1..Len(call.include.v) : ValidPath(call.include.v[p], call.entity))
    => /\ pc # "raised"
       /\ \A p \in 1..Len(call.include.v) : \A k \in 1..Len(ChainOf(p)) :
             LET one   == SelectsOf(ret)[Before(p) + k]
                 chain == Reverse(SubSeq(ChainOf(p), 1, k))
             IN /\ \A a, b \in 1..Len(OccurrencesOf(one)) :
                      a # b => OccurrencesOf(one)[a] # OccurrencesOf(one)[b]
                /\ Len(one.joins) = k - 1
                /\ \A j \in 1..Len(one.joins) : one.joins[j].key = chain[j].key
                /\ one.where.right = ColumnOf(Table(chain[k].class_), chain[k].remote)

====
